---- MODULE Spec2Model ----
(***************************************************************************)
(* A model of scripts/add_headers.py: the script that walks a Go source    *)
(* tree and inserts a licence/metadata comment block at the top of every   *)
(* *.go file outside vendor directories.                                   *)
(*                                                                         *)
(* Strings are modelled as sequences of characters, each character a       *)
(* one-character TLA+ string; a file's content is one such sequence, line  *)
(* breaks included.  Three characters of the source cannot be written in a *)
(* TLA+ string and are named instead: "<backtick>" is the backquote, and   *)
(* "<U+00C2>", "<U+00A9>" are the two non-ASCII characters of the          *)
(* copyright line.  Each such name is one character of the sequence.       *)
(***************************************************************************)
EXTENDS Integers, Sequences, FiniteSets, TLC

(***************************************************************************)
(* The tables and string constants of the source.                          *)
(***************************************************************************)

\* DIR_INFO, in the order of the dict literal (Python dicts iterate in insertion order).
\* Each entry holds its key and the three fields of its value.
DIR_INFO ==
  <<
    \* "client/cmd/texel-client"
    [ key |->
        <<"c","l","i","e","n","t","/","c","m","d","/","t","e","x","e","l","-","c","l","i","e","n","t">>,
      \* "remote client binary"
      component |->
        <<"r","e","m","o","t","e"," ","c","l","i","e","n","t"," ","b","i","n","a","r","y">>,
      \* "Invoked by end users to render the server-hosted desktop locally; other tooling wraps this runtime via internal/runtime/client.Run."
      usage_template |->
        <<"I","n","v","o","k","e","d"," ","b","y"," ","e","n","d"," ","u","s","e","r","s"," ","t","o",
          " ","r","e","n","d","e","r"," ","t","h","e"," ","s","e","r","v","e","r","-","h","o","s","t",
          "e","d"," ","d","e","s","k","t","o","p"," ","l","o","c","a","l","l","y",";"," ","o","t","h",
          "e","r"," ","t","o","o","l","i","n","g"," ","w","r","a","p","s"," ","t","h","i","s"," ","r",
          "u","n","t","i","m","e"," ","v","i","a"," ","i","n","t","e","r","n","a","l","/","r","u","n",
          "t","i","m","e","/","c","l","i","e","n","t",".","R","u","n",".">>,
      \* "Depends on the client runtime packages; keep it thin so alternate front-ends can reuse the same code."
      notes |->
        <<"D","e","p","e","n","d","s"," ","o","n"," ","t","h","e"," ","c","l","i","e","n","t"," ","r",
          "u","n","t","i","m","e"," ","p","a","c","k","a","g","e","s",";"," ","k","e","e","p"," ","i",
          "t"," ","t","h","i","n"," ","s","o"," ","a","l","t","e","r","n","a","t","e"," ","f","r","o",
          "n","t","-","e","n","d","s"," ","c","a","n"," ","r","e","u","s","e"," ","t","h","e"," ","s",
          "a","m","e"," ","c","o","d","e",".">> ],
    \* "client/cmd/texel-headless"
    [ key |->
        <<"c","l","i","e","n","t","/","c","m","d","/","t","e","x","e","l","-","h","e","a","d","l","e",
          "s","s">>,
      \* "headless client harness"
      component |->
        <<"h","e","a","d","l","e","s","s"," ","c","l","i","e","n","t"," ","h","a","r","n","e","s","s">>,
      \* "Used in CI and automated tests to validate protocol flows without opening a tcell screen."
      usage_template |->
        <<"U","s","e","d"," ","i","n"," ","C","I"," ","a","n","d"," ","a","u","t","o","m","a","t","e",
          "d"," ","t","e","s","t","s"," ","t","o"," ","v","a","l","i","d","a","t","e"," ","p","r","o",
          "t","o","c","o","l"," ","f","l","o","w","s"," ","w","i","t","h","o","u","t"," ","o","p","e",
          "n","i","n","g"," ","a"," ","t","c","e","l","l"," ","s","c","r","e","e","n",".">>,
      \* "Provides a minimal client for scripted scenarios."
      notes |->
        <<"P","r","o","v","i","d","e","s"," ","a"," ","m","i","n","i","m","a","l"," ","c","l","i","e",
          "n","t"," ","f","o","r"," ","s","c","r","i","p","t","e","d"," ","s","c","e","n","a","r","i",
          "o","s",".">> ],
    \* "client"
    [ key |->
        <<"c","l","i","e","n","t">>,
      \* "client runtime support library"
      component |->
        <<"c","l","i","e","n","t"," ","r","u","n","t","i","m","e"," ","s","u","p","p","o","r","t"," ",
          "l","i","b","r","a","r","y">>,
      \* "Imported by the remote renderer to manage {feature} during live sessions."
      usage_template |->
        <<"I","m","p","o","r","t","e","d"," ","b","y"," ","t","h","e"," ","r","e","m","o","t","e"," ",
          "r","e","n","d","e","r","e","r"," ","t","o"," ","m","a","n","a","g","e"," ","{","f","e","a",
          "t","u","r","e","}"," ","d","u","r","i","n","g"," ","l","i","v","e"," ","s","e","s","s","i",
          "o","n","s",".">>,
      \* "Shared across multiple client binaries and tests."
      notes |->
        <<"S","h","a","r","e","d"," ","a","c","r","o","s","s"," ","m","u","l","t","i","p","l","e"," ",
          "c","l","i","e","n","t"," ","b","i","n","a","r","i","e","s"," ","a","n","d"," ","t","e","s",
          "t","s",".">> ],
    \* "apps/clock"
    [ key |->
        <<"a","p","p","s","/","c","l","o","c","k">>,
      \* "clock status widget"
      component |->
        <<"c","l","o","c","k"," ","s","t","a","t","u","s"," ","w","i","d","g","e","t">>,
      \* "Loaded into the desktop chrome to display time information."
      usage_template |->
        <<"L","o","a","d","e","d"," ","i","n","t","o"," ","t","h","e"," ","d","e","s","k","t","o","p",
          " ","c","h","r","o","m","e"," ","t","o"," ","d","i","s","p","l","a","y"," ","t","i","m","e",
          " ","i","n","f","o","r","m","a","t","i","o","n",".">>,
      \* "Uses shared texel primitives for drawing."
      notes |->
        <<"U","s","e","s"," ","s","h","a","r","e","d"," ","t","e","x","e","l"," ","p","r","i","m","i",
          "t","i","v","e","s"," ","f","o","r"," ","d","r","a","w","i","n","g",".">> ],
    \* "apps/statusbar"
    [ key |->
        <<"a","p","p","s","/","s","t","a","t","u","s","b","a","r">>,
      \* "status bar application"
      component |->
        <<"s","t","a","t","u","s"," ","b","a","r"," ","a","p","p","l","i","c","a","t","i","o","n">>,
      \* "Added to desktops to render workspace and mode metadata."
      usage_template |->
        <<"A","d","d","e","d"," ","t","o"," ","d","e","s","k","t","o","p","s"," ","t","o"," ","r","e",
          "n","d","e","r"," ","w","o","r","k","s","p","a","c","e"," ","a","n","d"," ","m","o","d","e",
          " ","m","e","t","a","d","a","t","a",".">>,
      \* "Works in both local and remote deployments."
      notes |->
        <<"W","o","r","k","s"," ","i","n"," ","b","o","t","h"," ","l","o","c","a","l"," ","a","n","d",
          " ","r","e","m","o","t","e"," ","d","e","p","l","o","y","m","e","n","t","s",".">> ],
    \* "apps/texelterm/parser"
    [ key |->
        <<"a","p","p","s","/","t","e","x","e","l","t","e","r","m","/","p","a","r","s","e","r">>,
      \* "terminal parser module"
      component |->
        <<"t","e","r","m","i","n","a","l"," ","p","a","r","s","e","r"," ","m","o","d","u","l","e">>,
      \* "Consumed by the terminal app when decoding VT sequences."
      usage_template |->
        <<"C","o","n","s","u","m","e","d"," ","b","y"," ","t","h","e"," ","t","e","r","m","i","n","a",
          "l"," ","a","p","p"," ","w","h","e","n"," ","d","e","c","o","d","i","n","g"," ","V","T"," ",
          "s","e","q","u","e","n","c","e","s",".">>,
      \* "Keeps parsing concerns isolated from rendering."
      notes |->
        <<"K","e","e","p","s"," ","p","a","r","s","i","n","g"," ","c","o","n","c","e","r","n","s"," ",
          "i","s","o","l","a","t","e","d"," ","f","r","o","m"," ","r","e","n","d","e","r","i","n","g",
          ".">> ],
    \* "apps/texelterm"
    [ key |->
        <<"a","p","p","s","/","t","e","x","e","l","t","e","r","m">>,
      \* "terminal application"
      component |->
        <<"t","e","r","m","i","n","a","l"," ","a","p","p","l","i","c","a","t","i","o","n">>,
      \* "Spawned by desktop factories to provide shell access."
      usage_template |->
        <<"S","p","a","w","n","e","d"," ","b","y"," ","d","e","s","k","t","o","p"," ","f","a","c","t",
          "o","r","i","e","s"," ","t","o"," ","p","r","o","v","i","d","e"," ","s","h","e","l","l"," ",
          "a","c","c","e","s","s",".">>,
      \* "Wraps PTY management and integrates with the parser package."
      notes |->
        <<"W","r","a","p","s"," ","P","T","Y"," ","m","a","n","a","g","e","m","e","n","t"," ","a","n",
          "d"," ","i","n","t","e","g","r","a","t","e","s"," ","w","i","t","h"," ","t","h","e"," ","p",
          "a","r","s","e","r"," ","p","a","c","k","a","g","e",".">> ],
    \* "apps/welcome"
    [ key |->
        <<"a","p","p","s","/","w","e","l","c","o","m","e">>,
      \* "welcome application"
      component |->
        <<"w","e","l","c","o","m","e"," ","a","p","p","l","i","c","a","t","i","o","n">>,
      \* "Presented on new sessions to guide users through the interface."
      usage_template |->
        <<"P","r","e","s","e","n","t","e","d"," ","o","n"," ","n","e","w"," ","s","e","s","s","i","o",
          "n","s"," ","t","o"," ","g","u","i","d","e"," ","u","s","e","r","s"," ","t","h","r","o","u",
          "g","h"," ","t","h","e"," ","i","n","t","e","r","f","a","c","e",".">>,
      \* "Displays static content; simple example app."
      notes |->
        <<"D","i","s","p","l","a","y","s"," ","s","t","a","t","i","c"," ","c","o","n","t","e","n","t",
          ";"," ","s","i","m","p","l","e"," ","e","x","a","m","p","l","e"," ","a","p","p",".">> ],
    \* "internal/effects"
    [ key |->
        <<"i","n","t","e","r","n","a","l","/","e","f","f","e","c","t","s">>,
      \* "client effect subsystem"
      component |->
        <<"c","l","i","e","n","t"," ","e","f","f","e","c","t"," ","s","u","b","s","y","s","t","e","m">>,
      \* "Used by the client runtime to orchestrate {feature} visuals before rendering."
      usage_template |->
        <<"U","s","e","d"," ","b","y"," ","t","h","e"," ","c","l","i","e","n","t"," ","r","u","n","t",
          "i","m","e"," ","t","o"," ","o","r","c","h","e","s","t","r","a","t","e"," ","{","f","e","a",
          "t","u","r","e","}"," ","v","i","s","u","a","l","s"," ","b","e","f","o","r","e"," ","r","e",
          "n","d","e","r","i","n","g",".">>,
      \* "Centralises every pane and workspace overlay so they can be configured via themes."
      notes |->
        <<"C","e","n","t","r","a","l","i","s","e","s"," ","e","v","e","r","y"," ","p","a","n","e"," ",
          "a","n","d"," ","w","o","r","k","s","p","a","c","e"," ","o","v","e","r","l","a","y"," ","s",
          "o"," ","t","h","e","y"," ","c","a","n"," ","b","e"," ","c","o","n","f","i","g","u","r","e",
          "d"," ","v","i","a"," ","t","h","e","m","e","s",".">> ],
    \* "internal/runtime/client"
    [ key |->
        <<"i","n","t","e","r","n","a","l","/","r","u","n","t","i","m","e","/","c","l","i","e","n","t">>,
      \* "remote client runtime"
      component |->
        <<"r","e","m","o","t","e"," ","c","l","i","e","n","t"," ","r","u","n","t","i","m","e">>,
      \* "Embedded by client binaries to handle {feature} as part of the render/event loop."
      usage_template |->
        <<"E","m","b","e","d","d","e","d"," ","b","y"," ","c","l","i","e","n","t"," ","b","i","n","a",
          "r","i","e","s"," ","t","o"," ","h","a","n","d","l","e"," ","{","f","e","a","t","u","r","e",
          "}"," ","a","s"," ","p","a","r","t"," ","o","f"," ","t","h","e"," ","r","e","n","d","e","r",
          "/","e","v","e","n","t"," ","l","o","o","p",".">>,
      \* "Owns session management, rendering, and protocol interaction for remote front-ends."
      notes |->
        <<"O","w","n","s"," ","s","e","s","s","i","o","n"," ","m","a","n","a","g","e","m","e","n","t",
          ","," ","r","e","n","d","e","r","i","n","g",","," ","a","n","d"," ","p","r","o","t","o","c",
          "o","l"," ","i","n","t","e","r","a","c","t","i","o","n"," ","f","o","r"," ","r","e","m","o",
          "t","e"," ","f","r","o","n","t","-","e","n","d","s",".">> ],
    \* "internal/runtime/server/testutil"
    [ key |->
        <<"i","n","t","e","r","n","a","l","/","r","u","n","t","i","m","e","/","s","e","r","v","e","r",
          "/","t","e","s","t","u","t","i","l">>,
      \* "server runtime test utilities"
      component |->
        <<"s","e","r","v","e","r"," ","r","u","n","t","i","m","e"," ","t","e","s","t"," ","u","t","i",
          "l","i","t","i","e","s">>,
      \* "Imported by server tests when they need {feature} helpers."
      usage_template |->
        <<"I","m","p","o","r","t","e","d"," ","b","y"," ","s","e","r","v","e","r"," ","t","e","s","t",
          "s"," ","w","h","e","n"," ","t","h","e","y"," ","n","e","e","d"," ","{","f","e","a","t","u",
          "r","e","}"," ","h","e","l","p","e","r","s",".">>,
      \* "Not shipped with production binaries; only used in test code."
      notes |->
        <<"N","o","t"," ","s","h","i","p","p","e","d"," ","w","i","t","h"," ","p","r","o","d","u","c",
          "t","i","o","n"," ","b","i","n","a","r","i","e","s",";"," ","o","n","l","y"," ","u","s","e",
          "d"," ","i","n"," ","t","e","s","t"," ","c","o","d","e",".">> ],
    \* "internal/runtime/server"
    [ key |->
        <<"i","n","t","e","r","n","a","l","/","r","u","n","t","i","m","e","/","s","e","r","v","e","r">>,
      \* "server runtime"
      component |->
        <<"s","e","r","v","e","r"," ","r","u","n","t","i","m","e">>,
      \* "Used by texel-server to coordinate {feature} when hosting apps and sessions."
      usage_template |->
        <<"U","s","e","d"," ","b","y"," ","t","e","x","e","l","-","s","e","r","v","e","r"," ","t","o",
          " ","c","o","o","r","d","i","n","a","t","e"," ","{","f","e","a","t","u","r","e","}"," ","w",
          "h","e","n"," ","h","o","s","t","i","n","g"," ","a","p","p","s"," ","a","n","d"," ","s","e",
          "s","s","i","o","n","s",".">>,
      \* "This package bridges the legacy desktop code with the client/server protocol implementation."
      notes |->
        <<"T","h","i","s"," ","p","a","c","k","a","g","e"," ","b","r","i","d","g","e","s"," ","t","h",
          "e"," ","l","e","g","a","c","y"," ","d","e","s","k","t","o","p"," ","c","o","d","e"," ","w",
          "i","t","h"," ","t","h","e"," ","c","l","i","e","n","t","/","s","e","r","v","e","r"," ","p",
          "r","o","t","o","c","o","l"," ","i","m","p","l","e","m","e","n","t","a","t","i","o","n",".">> ],
    \* "protocol"
    [ key |->
        <<"p","r","o","t","o","c","o","l">>,
      \* "protocol definitions"
      component |->
        <<"p","r","o","t","o","c","o","l"," ","d","e","f","i","n","i","t","i","o","n","s">>,
      \* "Shared by clients and servers to encode {feature} messages over the wire."
      usage_template |->
        <<"S","h","a","r","e","d"," ","b","y"," ","c","l","i","e","n","t","s"," ","a","n","d"," ","s",
          "e","r","v","e","r","s"," ","t","o"," ","e","n","c","o","d","e"," ","{","f","e","a","t","u",
          "r","e","}"," ","m","e","s","s","a","g","e","s"," ","o","v","e","r"," ","t","h","e"," ","w",
          "i","r","e",".">>,
      \* "Keep changes backward-compatible; any additions require coordinated version bumps."
      notes |->
        <<"K","e","e","p"," ","c","h","a","n","g","e","s"," ","b","a","c","k","w","a","r","d","-","c",
          "o","m","p","a","t","i","b","l","e",";"," ","a","n","y"," ","a","d","d","i","t","i","o","n",
          "s"," ","r","e","q","u","i","r","e"," ","c","o","o","r","d","i","n","a","t","e","d"," ","v",
          "e","r","s","i","o","n"," ","b","u","m","p","s",".">> ],
    \* "texel/theme"
    [ key |->
        <<"t","e","x","e","l","/","t","h","e","m","e">>,
      \* "theme subsystem"
      component |->
        <<"t","h","e","m","e"," ","s","u","b","s","y","s","t","e","m">>,
      \* "Accessed by both server and client when reading {feature} from theme configurations."
      usage_template |->
        <<"A","c","c","e","s","s","e","d"," ","b","y"," ","b","o","t","h"," ","s","e","r","v","e","r",
          " ","a","n","d"," ","c","l","i","e","n","t"," ","w","h","e","n"," ","r","e","a","d","i","n",
          "g"," ","{","f","e","a","t","u","r","e","}"," ","f","r","o","m"," ","t","h","e","m","e"," ",
          "c","o","n","f","i","g","u","r","a","t","i","o","n","s",".">>,
      \* "Ensures user theme files always contain required defaults."
      notes |->
        <<"E","n","s","u","r","e","s"," ","u","s","e","r"," ","t","h","e","m","e"," ","f","i","l","e",
          "s"," ","a","l","w","a","y","s"," ","c","o","n","t","a","i","n"," ","r","e","q","u","i","r",
          "e","d"," ","d","e","f","a","u","l","t","s",".">> ],
    \* "texel"
    [ key |->
        <<"t","e","x","e","l">>,
      \* "core desktop engine"
      component |->
        <<"c","o","r","e"," ","d","e","s","k","t","o","p"," ","e","n","g","i","n","e">>,
      \* "Used throughout the project to implement {feature} inside the desktop and panes."
      usage_template |->
        <<"U","s","e","d"," ","t","h","r","o","u","g","h","o","u","t"," ","t","h","e"," ","p","r","o",
          "j","e","c","t"," ","t","o"," ","i","m","p","l","e","m","e","n","t"," ","{","f","e","a","t",
          "u","r","e","}"," ","i","n","s","i","d","e"," ","t","h","e"," ","d","e","s","k","t","o","p",
          " ","a","n","d"," ","p","a","n","e","s",".">>,
      \* "Legacy desktop logic migrated from the monolithic application."
      notes |->
        <<"L","e","g","a","c","y"," ","d","e","s","k","t","o","p"," ","l","o","g","i","c"," ","m","i",
          "g","r","a","t","e","d"," ","f","r","o","m"," ","t","h","e"," ","m","o","n","o","l","i","t",
          "h","i","c"," ","a","p","p","l","i","c","a","t","i","o","n",".">> ],
    \* "cmd/texel-server"
    [ key |->
        <<"c","m","d","/","t","e","x","e","l","-","s","e","r","v","e","r">>,
      \* "server CLI harness"
      component |->
        <<"s","e","r","v","e","r"," ","C","L","I"," ","h","a","r","n","e","s","s">>,
      \* "Executed by operators to start the production server that manages sessions."
      usage_template |->
        <<"E","x","e","c","u","t","e","d"," ","b","y"," ","o","p","e","r","a","t","o","r","s"," ","t",
          "o"," ","s","t","a","r","t"," ","t","h","e"," ","p","r","o","d","u","c","t","i","o","n"," ",
          "s","e","r","v","e","r"," ","t","h","a","t"," ","m","a","n","a","g","e","s"," ","s","e","s",
          "s","i","o","n","s",".">>,
      \* "Focuses on wiring flags and lifecycle around the internal runtime."
      notes |->
        <<"F","o","c","u","s","e","s"," ","o","n"," ","w","i","r","i","n","g"," ","f","l","a","g","s",
          " ","a","n","d"," ","l","i","f","e","c","y","c","l","e"," ","a","r","o","u","n","d"," ","t",
          "h","e"," ","i","n","t","e","r","n","a","l"," ","r","u","n","t","i","m","e",".">> ],
    \* "cmd/texel-stress"
    [ key |->
        <<"c","m","d","/","t","e","x","e","l","-","s","t","r","e","s","s">>,
      \* "stress harness"
      component |->
        <<"s","t","r","e","s","s"," ","h","a","r","n","e","s","s">>,
      \* "Run in integration environments to pressure-test server throughput and protocol stability."
      usage_template |->
        <<"R","u","n"," ","i","n"," ","i","n","t","e","g","r","a","t","i","o","n"," ","e","n","v","i",
          "r","o","n","m","e","n","t","s"," ","t","o"," ","p","r","e","s","s","u","r","e","-","t","e",
          "s","t"," ","s","e","r","v","e","r"," ","t","h","r","o","u","g","h","p","u","t"," ","a","n",
          "d"," ","p","r","o","t","o","c","o","l"," ","s","t","a","b","i","l","i","t","y",".">>,
      \* "Spawns multiple client connections to simulate load."
      notes |->
        <<"S","p","a","w","n","s"," ","m","u","l","t","i","p","l","e"," ","c","l","i","e","n","t"," ",
          "c","o","n","n","e","c","t","i","o","n","s"," ","t","o"," ","s","i","m","u","l","a","t","e",
          " ","l","o","a","d",".">> ]
  >>

\* DEFAULT_INFO: the record used when no key of DIR_INFO matches.
DEFAULT_INFO ==
    \* "Texelation module"
    [ component |->
        <<"T","e","x","e","l","a","t","i","o","n"," ","m","o","d","u","l","e">>,
      \* "Referenced within the project wherever {feature} support is required."
      usage_template |->
        <<"R","e","f","e","r","e","n","c","e","d"," ","w","i","t","h","i","n"," ","t","h","e"," ","p",
          "r","o","j","e","c","t"," ","w","h","e","r","e","v","e","r"," ","{","f","e","a","t","u","r",
          "e","}"," ","s","u","p","p","o","r","t"," ","i","s"," ","r","e","q","u","i","r","e","d",".">>,
      \* "Part of the Texelation AGPLv3 codebase."
      notes |->
        <<"P","a","r","t"," ","o","f"," ","t","h","e"," ","T","e","x","e","l","a","t","i","o","n"," ",
          "A","G","P","L","v","3"," ","c","o","d","e","b","a","s","e",".">> ]

\* SPDX_MARKER is the string "SPDX-License-Identifier"
SPDX_MARKER ==
    <<"S","P","D","X","-","L","i","c","e","n","s","e","-","I","d","e","n","t","i","f","i","e","r">>

\* GO_BUILD is the string "//go:build"
GO_BUILD ==
    <<"/","/","g","o",":","b","u","i","l","d">>

\* PLUS_BUILD is the string "// +build"
PLUS_BUILD ==
    <<"/","/"," ","+","b","u","i","l","d">>

\* BENCH_SUFFIX is the string "_bench_test"
BENCH_SUFFIX ==
    <<"_","b","e","n","c","h","_","t","e","s","t">>

\* TEST_SUFFIX is the string "_test"
TEST_SUFFIX ==
    <<"_","t","e","s","t">>

\* TESTS_SUFFIX is the string "_tests"
TESTS_SUFFIX ==
    <<"_","t","e","s","t","s">>

\* MAIN_LABEL is the string "main"
MAIN_LABEL ==
    <<"m","a","i","n">>

\* VENDOR_DIR is the string "/vendor/"
VENDOR_DIR ==
    <<"/","v","e","n","d","o","r","/">>

\* FEATURE_FIELD is the string "{feature}"
FEATURE_FIELD ==
    <<"{","f","e","a","t","u","r","e","}">>

\* COMPONENT_FIELD is the string "{component}"
COMPONENT_FIELD ==
    <<"{","c","o","m","p","o","n","e","n","t","}">>

\* BENCH_SUMMARY_1 is the string "Benchmarks "
BENCH_SUMMARY_1 ==
    <<"B","e","n","c","h","m","a","r","k","s"," ">>

\* BENCH_SUMMARY_2 is the string " performance within the "
BENCH_SUMMARY_2 ==
    <<" ","p","e","r","f","o","r","m","a","n","c","e"," ","w","i","t","h","i","n"," ","t","h","e",
      " ">>

\* BENCH_USAGE is the string "Run via <backtick>go test -bench<backtick> to observe hot-path behaviour under load."
BENCH_USAGE ==
    <<"R","u","n"," ","v","i","a"," ","<backtick>","g","o"," ","t","e","s","t"," ","-","b","e",
      "n","c","h","<backtick>"," ","t","o"," ","o","b","s","e","r","v","e"," ","h","o","t","-",
      "p","a","t","h"," ","b","e","h","a","v","i","o","u","r"," ","u","n","d","e","r"," ","l","o",
      "a","d",".">>

\* TEST_SUMMARY_1 is the string "Exercises "
TEST_SUMMARY_1 ==
    <<"E","x","e","r","c","i","s","e","s"," ">>

\* TEST_SUMMARY_2 is the string " behaviour to ensure the "
TEST_SUMMARY_2 ==
    <<" ","b","e","h","a","v","i","o","u","r"," ","t","o"," ","e","n","s","u","r","e"," ","t","h",
      "e"," ">>

\* TEST_SUMMARY_3 is the string " remains reliable."
TEST_SUMMARY_3 ==
    <<" ","r","e","m","a","i","n","s"," ","r","e","l","i","a","b","l","e",".">>

\* TEST_USAGE is the string "Executed during <backtick>go test<backtick> to guard against regressions."
TEST_USAGE ==
    <<"E","x","e","c","u","t","e","d"," ","d","u","r","i","n","g"," ","<backtick>","g","o"," ",
      "t","e","s","t","<backtick>"," ","t","o"," ","g","u","a","r","d"," ","a","g","a","i","n",
      "s","t"," ","r","e","g","r","e","s","s","i","o","n","s",".">>

\* PROD_SUMMARY_1 is the string "Implements "
PROD_SUMMARY_1 ==
    <<"I","m","p","l","e","m","e","n","t","s"," ">>

\* PROD_SUMMARY_2 is the string " capabilities for the "
PROD_SUMMARY_2 ==
    <<" ","c","a","p","a","b","i","l","i","t","i","e","s"," ","f","o","r"," ","t","h","e"," ">>

\* COPYRIGHT_LINE is the string "// Copyright <U+00C2><U+00A9> 2025 Texelation contributors"
COPYRIGHT_LINE ==
    <<"/","/"," ","C","o","p","y","r","i","g","h","t"," ","<U+00C2>","<U+00A9>"," ","2","0","2",
      "5"," ","T","e","x","e","l","a","t","i","o","n"," ","c","o","n","t","r","i","b","u","t","o",
      "r","s">>

\* SPDX_LINE is the string "// SPDX-License-Identifier: AGPL-3.0-or-later"
SPDX_LINE ==
    <<"/","/"," ","S","P","D","X","-","L","i","c","e","n","s","e","-","I","d","e","n","t","i","f",
      "i","e","r",":"," ","A","G","P","L","-","3",".","0","-","o","r","-","l","a","t","e","r">>

\* COMMENT_LINE is the string "//"
COMMENT_LINE ==
    <<"/","/">>

\* FILE_PREFIX is the string "// File: "
FILE_PREFIX ==
    <<"/","/"," ","F","i","l","e",":"," ">>

\* SUMMARY_PREFIX is the string "// Summary: "
SUMMARY_PREFIX ==
    <<"/","/"," ","S","u","m","m","a","r","y",":"," ">>

\* USAGE_PREFIX is the string "// Usage: "
USAGE_PREFIX ==
    <<"/","/"," ","U","s","a","g","e",":"," ">>

\* NOTES_PREFIX is the string "// Notes: "
NOTES_PREFIX ==
    <<"/","/"," ","N","o","t","e","s",":"," ">>
\* ROOT: the directory above scripts/, as an absolute path.  Its value is the
\* place of the checkout; the model fixes one.
ROOT ==
    <<"/","w">>

(***************************************************************************)
(* The string operations of Python that the script uses.                   *)
(***************************************************************************)

\* s.startswith(p)
StartsWith(s, p) ==
    Len(s) >= Len(p) /\ SubSeq(s, 1, Len(p)) = p

\* s.endswith(p)
EndsWith(s, p) ==
    Len(s) >= Len(p) /\ SubSeq(s, Len(s) - Len(p) + 1, Len(s)) = p

\* p in s, for strings: p occurs in s as a substring
Contains(s, p) ==
    \E i \in 1..(Len(s) - Len(p) + 1) : SubSeq(s, i, i + Len(p) - 1) = p

\* x in xs, for a list: some element of xs equals x
ListContains(xs, x) ==
    \E i \in 1..Len(xs) : xs[i] = x

\* xs[:n]
Take(xs, n) ==
    SubSeq(xs, 1, IF n < Len(xs) THEN n ELSE Len(xs))

\* s[:-n] for n > 0
DropLast(s, n) ==
    SubSeq(s, 1, Len(s) - n)

\* The characters str.splitlines breaks a line at ("\r\n" counts as one
\* break).  Python also breaks at \v, \x1c, \x1d, \x1e, \x85, U+2028 and
\* U+2029, which the model's texts do not contain.
LINE_BREAKS ==
    {"\n", "\r", "\f"}

\* The characters str.strip and str.split treat as whitespace.
WHITESPACE ==
    {" ", "\t", "\n", "\r", "\f"}

\* text.splitlines(): the lines of text without their line breaks; a final
\* line break opens no further line.
RECURSIVE splitlines(_)
splitlines(text) ==
    IF text = <<>> THEN <<>>
    ELSE IF \A i \in 1..Len(text) : text[i] \notin LINE_BREAKS THEN <<text>>
    ELSE LET i == CHOOSE k \in 1..Len(text) :
                      /\ text[k] \in LINE_BREAKS
                      /\ \A j \in 1..(k - 1) : text[j] \notin LINE_BREAKS
             n == IF text[i] = "\r" /\ i < Len(text) /\ text[i + 1] = "\n"
                  THEN 2 ELSE 1
         IN  <<SubSeq(text, 1, i - 1)>> \o splitlines(SubSeq(text, i + n, Len(text)))

\* sep.join(xs)
RECURSIVE join(_, _)
join(sep, xs) ==
    IF xs = <<>> THEN <<>>
    ELSE IF Len(xs) = 1 THEN xs[1]
    ELSE xs[1] \o sep \o join(sep, Tail(xs))

\* s.strip()
strip(s) ==
    IF \A i \in 1..Len(s) : s[i] \in WHITESPACE THEN <<>>
    ELSE LET a == CHOOSE k \in 1..Len(s) :
                      /\ s[k] \notin WHITESPACE
                      /\ \A j \in 1..(k - 1) : s[j] \in WHITESPACE
             b == CHOOSE k \in 1..Len(s) :
                      /\ s[k] \notin WHITESPACE
                      /\ \A j \in (k + 1)..Len(s) : s[j] \in WHITESPACE
         IN  SubSeq(s, a, b)

\* s.split(): the maximal runs of non-whitespace characters of s
RECURSIVE split(_)
split(s) ==
    IF \A i \in 1..Len(s) : s[i] \in WHITESPACE THEN <<>>
    ELSE LET a == CHOOSE k \in 1..Len(s) :
                      /\ s[k] \notin WHITESPACE
                      /\ \A j \in 1..(k - 1) : s[j] \in WHITESPACE
             e == IF \A j \in a..Len(s) : s[j] \notin WHITESPACE THEN Len(s) + 1
                  ELSE CHOOSE k \in a..Len(s) :
                           /\ s[k] \in WHITESPACE
                           /\ \A j \in a..(k - 1) : s[j] \notin WHITESPACE
         IN  <<SubSeq(s, a, e - 1)>> \o split(SubSeq(s, e, Len(s)))

\* s.replace(old, new) for one-character old and new
replace(s, old, new) ==
    [i \in 1..Len(s) |-> IF s[i] = old THEN new ELSE s[i]]

\* template.format(feature=feature, component=component): each "{feature}"
\* and "{component}" field of the template replaced by its value.  (Python
\* raises on any other brace; no template of the tables has one.)
RECURSIVE format(_, _, _)
format(template, feature, component) ==
    IF \A i \in 1..Len(template) : template[i] # "{" THEN template
    ELSE LET i == CHOOSE k \in 1..Len(template) :
                      /\ template[k] = "{"
                      /\ \A j \in 1..(k - 1) : template[j] # "{"
             rest == SubSeq(template, i, Len(template))
             after(field) == SubSeq(rest, Len(field) + 1, Len(rest))
         IN  SubSeq(template, 1, i - 1) \o
             ( IF StartsWith(rest, FEATURE_FIELD)
               THEN feature \o format(after(FEATURE_FIELD), feature, component)
               ELSE IF StartsWith(rest, COMPONENT_FIELD)
               THEN component \o format(after(COMPONENT_FIELD), feature, component)
               ELSE <<"{">> \o format(Tail(rest), feature, component) )

(***************************************************************************)
(* Paths.  A file is named by its path relative to ROOT, a string such as  *)
(* "protocol/codec.go".                                                    *)
(***************************************************************************)

\* str(path) for the file at ROOT / relative
str_path(relative) ==
    ROOT \o <<"/">> \o relative

\* path.name: the final component of the path
path_name(relative) ==
    IF \A i \in 1..Len(relative) : relative[i] # "/" THEN relative
    ELSE LET i == CHOOSE k \in 1..Len(relative) :
                      /\ relative[k] = "/"
                      /\ \A j \in (k + 1)..Len(relative) : relative[j] # "/"
         IN  SubSeq(relative, i + 1, Len(relative))

\* path.stem: the final component without its last suffix.  pathlib takes the
\* suffix from the last "." unless that dot is the first or the last character.
path_stem(relative) ==
    LET name == path_name(relative)
    IN  IF \A i \in 1..Len(name) : name[i] # "." THEN name
        ELSE LET i == CHOOSE k \in 1..Len(name) :
                          /\ name[k] = "."
                          /\ \A j \in (k + 1)..Len(name) : name[j] # "."
             IN  IF 1 < i /\ i < Len(name) THEN SubSeq(name, 1, i - 1) ELSE name

(***************************************************************************)
(* choose_info: the most specific entry of DIR_INFO for a relative path.   *)
(***************************************************************************)

\* Matches with the "/" forgotten: any key that is a prefix of the path matches.
MatchesAnyPrefix(relative, key) ==
    StartsWith(relative, key) \/ relative = key

\* The test of the loop body: relative.startswith(key + "/") or relative == key
Matches(relative, key) ==
    StartsWith(relative, key \o <<"/">>) \/ relative = key

\* One pass of the loop body over `key` with best_key as it stands.  best_key
\* is <<>> for None or <<k>> for the key k.
ScanStep(best_key, relative, key) ==
    IF Matches(relative, key)
    THEN IF best_key = <<>> \/ Len(key) > Len(best_key[1]) THEN <<key>> ELSE best_key
    ELSE best_key

\* The for loop over the entries of `table` in their iteration order.
RECURSIVE ScanKeys(_, _, _)
ScanKeys(table, relative, best_key) ==
    IF table = <<>> THEN best_key
    ELSE ScanKeys(Tail(table), relative, ScanStep(best_key, relative, Head(table).key))

\* table[key], without the key
InfoOf(table, key) ==
    LET e == CHOOSE x \in {table[i] : i \in 1..Len(table)} : x.key = key
    IN  [component |-> e.component, usage_template |-> e.usage_template, notes |-> e.notes]

\* choose_info over a table given as its entries in iteration order.  The
\* final test `if best_key:` is false for None and for the empty key.
ChooseFrom(table, relative) ==
    LET best_key == ScanKeys(table, relative, <<>>)
    IN  IF best_key # <<>> /\ best_key[1] # <<>>
        THEN InfoOf(table, best_key[1])
        ELSE DEFAULT_INFO

choose_info(relative) ==
    ChooseFrom(DIR_INFO, relative)

(***************************************************************************)
(* humanise and build_header.                                              *)
(***************************************************************************)

humanise(name) ==
    LET words == split(replace(replace(name, "_", " "), "-", " "))
    IN  IF words = <<>> THEN name ELSE join(<<" ">>, words)

is_bench(base) ==
    EndsWith(base, BENCH_SUFFIX)

is_test(base) ==
    EndsWith(base, TEST_SUFFIX) \/ EndsWith(base, TESTS_SUFFIX)

\* The local `words` of build_header after the if/elif/else.
header_words(base) ==
    IF is_bench(base) THEN humanise(DropLast(base, 11))
    ELSE IF is_test(base)
    THEN IF EndsWith(base, TEST_SUFFIX) THEN humanise(DropLast(base, 5)) ELSE humanise(base)
    ELSE humanise(base)

\* The local `feature` of build_header: words, or "main" when words is empty.
header_feature(base) ==
    IF header_words(base) = <<>> THEN MAIN_LABEL ELSE header_words(base)

header_summary(base, info) ==
    IF is_bench(base)
    THEN BENCH_SUMMARY_1 \o header_feature(base) \o BENCH_SUMMARY_2 \o info.component \o <<".">>
    ELSE IF is_test(base)
    THEN TEST_SUMMARY_1 \o header_feature(base) \o TEST_SUMMARY_2 \o info.component
             \o TEST_SUMMARY_3
    ELSE PROD_SUMMARY_1 \o header_feature(base) \o PROD_SUMMARY_2 \o info.component \o <<".">>

header_usage(base, info) ==
    IF is_bench(base) THEN BENCH_USAGE
    ELSE IF is_test(base) THEN TEST_USAGE
    ELSE format(info.usage_template, header_feature(base), info.component)

\* build_header(path, info) for the file at ROOT / relative: the seven lines.
build_header(relative, info) ==
    LET base == path_stem(relative)
    IN  << COPYRIGHT_LINE,
           SPDX_LINE,
           COMMENT_LINE,
           FILE_PREFIX \o relative,
           SUMMARY_PREFIX \o header_summary(base, info),
           USAGE_PREFIX \o header_usage(base, info),
           NOTES_PREFIX \o info.notes >>

(***************************************************************************)
(* insert_header.                                                          *)
(***************************************************************************)

\* path.read_text(encoding="utf-8"): the file's characters with universal
\* newlines, "\r\n" and "\r" each read as "\n".
RECURSIVE read_text(_)
read_text(chars) ==
    IF \A i \in 1..Len(chars) : chars[i] # "\r" THEN chars
    ELSE LET i == CHOOSE k \in 1..Len(chars) :
                      /\ chars[k] = "\r"
                      /\ \A j \in 1..(k - 1) : chars[j] # "\r"
             n == IF i < Len(chars) /\ chars[i + 1] = "\n" THEN 2 ELSE 1
         IN  SubSeq(chars, 1, i - 1) \o <<"\n">>
                 \o read_text(SubSeq(chars, i + n, Len(chars)))

\* The early return: "SPDX-License-Identifier" in text.splitlines()[:5].  The
\* right operand is a list, so `in` asks for a line equal to the marker.
already_annotated(text) ==
    ListContains(Take(splitlines(text), 5), SPDX_MARKER)

\* The index a `while idx < len(lines) and <test>(lines[idx])` loop stops at,
\* started at idx (indices count from 0, as in the source).  holds[k] tells
\* whether the test holds of the k-th line.
SkipWhile(holds, idx) ==
    IF \A k \in (idx + 1)..Len(holds) : holds[k] THEN
        IF idx < Len(holds) THEN Len(holds) ELSE idx
    ELSE (CHOOSE k \in (idx + 1)..Len(holds) :
              /\ ~holds[k]
              /\ \A j \in (idx + 1)..(k - 1) : holds[j]) - 1

IsGoBuild(line) ==
    StartsWith(line, GO_BUILD)

IsPlusBuild(line) ==
    StartsWith(line, PLUS_BUILD)

IsBlank(line) ==
    strip(line) = <<>>

\* insert_idx after the two while loops and the if between them.
insert_idx(lines) ==
    LET a == SkipWhile([k \in 1..Len(lines) |-> IsGoBuild(lines[k])], 0)
        b == IF a < Len(lines) /\ IsPlusBuild(lines[a + 1]) THEN a + 1 ELSE a
    IN  SkipWhile([k \in 1..Len(lines) |-> IsBlank(lines[k])], b)

\* new_lines with the separator line forgotten.
new_lines_no_separator(lines, idx, header) ==
    SubSeq(lines, 1, idx) \o header \o SubSeq(lines, idx + 1, Len(lines))

\* new_lines = lines[:insert_idx] + header + [""] + lines[insert_idx:]
new_lines(lines, idx, header) ==
    SubSeq(lines, 1, idx) \o header \o << <<>> >> \o SubSeq(lines, idx + 1, Len(lines))

\* What insert_header writes to the file at ROOT / relative whose text is `text`.
written_text(relative, text) ==
    LET lines  == splitlines(text)
        header == build_header(relative, choose_info(relative))
    IN  join(<<"\n">>, new_lines(lines, insert_idx(lines), header)) \o <<"\n">>

(***************************************************************************)
(* Inputs.                                                                 *)
(***************************************************************************)

\* Lines per file of the sampled file contents.
MaxLines ==
    3

\* Runs of the script over the same tree.
MaxRuns ==
    2

\* Characters appended to a table key to make a path to resolve.
MaxTail ==
    2

\* Characters of a sampled file stem before its suffix.
MaxStem ==
    3

\* LINE_GO_BUILD is the string "//go:build linux"
LINE_GO_BUILD ==
    <<"/","/","g","o",":","b","u","i","l","d"," ","l","i","n","u","x">>

\* LINE_PLUS_BUILD is the string "// +build linux"
LINE_PLUS_BUILD ==
    <<"/","/"," ","+","b","u","i","l","d"," ","l","i","n","u","x">>

\* LINE_SPACES is the string " \t"
LINE_SPACES ==
    <<" ","\t">>

\* LINE_LICENSED is the string "// SPDX-License-Identifier: MIT"
LINE_LICENSED ==
    <<"/","/"," ","S","P","D","X","-","L","i","c","e","n","s","e","-","I","d","e","n","t","i","f",
      "i","e","r",":"," ","M","I","T">>

\* LINE_CODE is the string "package x\r"
LINE_CODE ==
    <<"p","a","c","k","a","g","e"," ","x","\r">>

\* PATH_PROD is the string "protocol/codec.go"
PATH_PROD ==
    <<"p","r","o","t","o","c","o","l","/","c","o","d","e","c",".","g","o">>

\* PATH_TEST is the string "texel/theme/parser_test.go"
PATH_TEST ==
    <<"t","e","x","e","l","/","t","h","e","m","e","/","p","a","r","s","e","r","_","t","e","s","t",
      ".","g","o">>

\* PATH_VENDOR is the string "vendor/lib.go"
PATH_VENDOR ==
    <<"v","e","n","d","o","r","/","l","i","b",".","g","o">>

\* GO_SUFFIX is the string ".go"
GO_SUFFIX ==
    <<".","g","o">>

\* STEM_FOO is the string "foo"
STEM_FOO ==
    <<"f","o","o">>

\* STEM_FOO_BAR is the string "foo_bar"
STEM_FOO_BAR ==
    <<"f","o","o","_","b","a","r">>

\* DIR_PKG is the string "pkg/"
DIR_PKG ==
    <<"p","k","g","/">>

SeqsUpTo(S, n) ==
    UNION {[1..k -> S] : k \in 0..n}

\* The lines file contents are made of: the two build directives, an empty and
\* a whitespace line, a line that is the SPDX marker, a comment line that holds
\* it, and a line of code ending in "\r" (a CRLF line once joined by "\n").
LINE_SAMPLES ==
    {LINE_GO_BUILD, LINE_PLUS_BUILD, <<>>, LINE_SPACES, SPDX_MARKER, LINE_LICENSED, LINE_CODE}

\* File contents: up to MaxLines sample lines joined by "\n" (a final empty
\* line gives the content a final newline).
TEXTS ==
    {join(<<"\n">>, ls) : ls \in SeqsUpTo(LINE_SAMPLES, MaxLines)}

\* The contents of the files of the three-file tree.
TREE_TEXTS ==
    { join(<<"\n">>, <<LINE_CODE, <<>> >>),
      join(<<"\n">>, <<SPDX_MARKER, LINE_CODE, <<>> >>) }

TREE_PATHS ==
    {PATH_PROD, PATH_TEST, PATH_VENDOR}

\* What can go wrong with a file: "decode" (its bytes are not UTF-8, read_text
\* raises UnicodeDecodeError), "perm" (it cannot be opened for writing,
\* write_text raises PermissionError).
FAULTS ==
    {"none", "decode", "perm"}

\* The orders in which rglob may yield the files of S.
Orders(S) ==
    {o \in [1..Cardinality(S) -> S] : \A i, j \in 1..Cardinality(S) : o[i] = o[j] => i = j}

\* The iteration orders of DIR_INFO tried by the resolver's specification:
\* every rotation of the source's order, forwards and reversed.
Rotated(table, k) ==
    [i \in 1..Len(table) |-> table[((i + k - 1) % Len(table)) + 1]]

Reversed(table) ==
    [i \in 1..Len(table) |-> table[Len(table) + 1 - i]]

TableOrder(k, rev) ==
    IF rev THEN Reversed(Rotated(DIR_INFO, k)) ELSE Rotated(DIR_INFO, k)

\* The paths resolved: every key of the table, every key without its last
\* character and the empty path, each followed by up to MaxTail characters.
CHOOSE_PATHS ==
    LET keys  == {DIR_INFO[i].key : i \in 1..Len(DIR_INFO)}
        stems == keys \cup {DropLast(k, 1) : k \in keys} \cup {<<>>}
    IN  {s \o t : s \in stems, t \in SeqsUpTo({"/", "x"}, MaxTail)}

\* The base names classified: up to MaxStem characters, or one of two sample
\* stems, followed by one of the suffixes or none.
BASE_NAMES ==
    LET stems    == SeqsUpTo({"a", "_", "-"}, MaxStem) \cup {STEM_FOO, STEM_FOO_BAR}
        suffixes == {<<>>, TEST_SUFFIX, TESTS_SUFFIX, BENCH_SUFFIX}
    IN  {s \o x : s \in stems, x \in suffixes}

(***************************************************************************)
(* State.                                                                  *)
(***************************************************************************)

VARIABLES
    content,    \* the tree: relative path of each *.go file |-> its characters
    fault,      \* relative path |-> what is wrong with the file (FAULTS)
    pc,         \* main: "idle", "loop", "done" (summary printed), "crashed"
    todo,       \* the paths rglob has still to yield, in order
    modified,   \* main's list `modified`
    reported,   \* the number in the printed summary, "none" before it
    runs,       \* runs of the script started
    rewritten,  \* history: the files write_text has written in this run
    applied,    \* history: path |-> calls of insert_header that returned
    last,       \* history: the latest loop iteration, with the content before it
    call        \* the latest call made by the resolver's and the header's specifications

vars ==
    <<content, fault, pc, todo, modified, reported, runs, rewritten, applied, last, call>>

NoVisit ==
    [path |-> <<>>, outcome |-> "none", before |-> <<>>]

NoCall ==
    [fn |-> "none"]

Idle ==
    /\ pc = "idle"
    /\ todo = <<>>
    /\ modified = <<>>
    /\ reported = "none"
    /\ runs = 0
    /\ rewritten = {}
    /\ applied = [p \in DOMAIN content |-> 0]
    /\ last = NoVisit
    /\ call = NoCall

\* A tree of one readable, writable source file with any sampled content.
InitFile ==
    /\ \E t \in TEXTS : content = (PATH_PROD :> t)
    /\ fault = [p \in DOMAIN content |-> "none"]
    /\ Idle

\* A tree of three files, one of them vendored, any of them faulty.
InitTree ==
    /\ content \in [TREE_PATHS -> TREE_TEXTS]
    /\ fault \in [TREE_PATHS -> FAULTS]
    /\ Idle

Init ==
    InitFile \/ InitTree

(***************************************************************************)
(* main.                                                                   *)
(***************************************************************************)

\* The script is started: rglob will yield the tree's *.go files in some order.
MainStart ==
    /\ pc \in {"idle", "done", "crashed"}
    /\ runs < MaxRuns
    /\ \E o \in Orders(DOMAIN content) : todo' = o
    /\ pc' = "loop"
    /\ modified' = <<>>
    /\ reported' = "none"
    /\ runs' = runs + 1
    /\ rewritten' = {}
    /\ last' = NoVisit
    /\ UNCHANGED <<content, fault, applied, call>>

Visit(outcome) ==
    [path |-> Head(todo), outcome |-> outcome, before |-> content[Head(todo)]]

\* if "/vendor/" in str(path): continue
SkipVendor ==
    /\ pc = "loop" /\ todo # <<>>
    /\ Contains(str_path(Head(todo)), VENDOR_DIR)
    /\ todo' = Tail(todo)
    /\ last' = Visit("skipped")
    /\ UNCHANGED <<content, fault, pc, modified, reported, runs, rewritten, applied, call>>

\* insert_header: read_text raises; nothing catches it and the script ends.
ReadFails ==
    /\ pc = "loop" /\ todo # <<>>
    /\ ~Contains(str_path(Head(todo)), VENDOR_DIR)
    /\ fault[Head(todo)] = "decode"
    /\ pc' = "crashed"
    /\ todo' = Tail(todo)
    /\ last' = Visit("raised")
    /\ UNCHANGED <<content, fault, modified, reported, runs, rewritten, applied, call>>

\* insert_header returns early; main appends the path to modified.
ReturnEarly ==
    /\ pc = "loop" /\ todo # <<>>
    /\ ~Contains(str_path(Head(todo)), VENDOR_DIR)
    /\ fault[Head(todo)] # "decode"
    /\ already_annotated(read_text(content[Head(todo)]))
    /\ modified' = Append(modified, Head(todo))
    /\ applied' = [applied EXCEPT ![Head(todo)] = @ + 1]
    /\ todo' = Tail(todo)
    /\ last' = Visit("returned")
    /\ UNCHANGED <<content, fault, pc, reported, runs, rewritten, call>>

\* insert_header writes the file; main appends the path to modified.
Rewrite ==
    /\ pc = "loop" /\ todo # <<>>
    /\ ~Contains(str_path(Head(todo)), VENDOR_DIR)
    /\ fault[Head(todo)] = "none"
    /\ ~already_annotated(read_text(content[Head(todo)]))
    /\ content' = [content EXCEPT
                     ![Head(todo)] = written_text(Head(todo), read_text(content[Head(todo)]))]
    /\ modified' = Append(modified, Head(todo))
    /\ rewritten' = rewritten \cup {Head(todo)}
    /\ applied' = [applied EXCEPT ![Head(todo)] = @ + 1]
    /\ todo' = Tail(todo)
    /\ last' = Visit("rewritten")
    /\ UNCHANGED <<fault, pc, reported, runs, call>>

\* insert_header: write_text raises; nothing catches it and the script ends.
WriteFails ==
    /\ pc = "loop" /\ todo # <<>>
    /\ ~Contains(str_path(Head(todo)), VENDOR_DIR)
    /\ fault[Head(todo)] = "perm"
    /\ ~already_annotated(read_text(content[Head(todo)]))
    /\ pc' = "crashed"
    /\ todo' = Tail(todo)
    /\ last' = Visit("raised")
    /\ UNCHANGED <<content, fault, modified, reported, runs, rewritten, applied, call>>

\* The loop is over: print(f"Updated {len(modified)} Go files")
MainPrint ==
    /\ pc = "loop" /\ todo = <<>>
    /\ reported' = Len(modified)
    /\ pc' = "done"
    /\ UNCHANGED <<content, fault, todo, modified, runs, rewritten, applied, last, call>>

Next ==
    \/ MainStart
    \/ SkipVendor
    \/ ReadFails
    \/ ReturnEarly
    \/ Rewrite
    \/ WriteFails
    \/ MainPrint

Spec ==
    Init /\ [][Next]_vars

(***************************************************************************)
(* The resolver alone: choose_info applied once to a sampled path, with    *)
(* the table iterated in one of several orders.                            *)
(***************************************************************************)

NoTree ==
    /\ content = <<>>
    /\ fault = <<>>
    /\ pc = "idle"
    /\ todo = <<>>
    /\ modified = <<>>
    /\ reported = "none"
    /\ runs = 0
    /\ rewritten = {}
    /\ applied = <<>>
    /\ last = NoVisit

\* The call is about to be made; `result` is <<>> until it returns.
InitChoose ==
    /\ NoTree
    /\ \E p \in CHOOSE_PATHS, k \in 0..(Len(DIR_INFO) - 1), rev \in BOOLEAN :
           call = [fn |-> "choose_info", relative |-> p, rotation |-> k, reversed |-> rev,
                   result |-> <<>>]

CallChooseInfo ==
    /\ call.fn = "choose_info" /\ call.result = <<>>
    /\ call' = [call EXCEPT !.result =
                   <<ChooseFrom(TableOrder(call.rotation, call.reversed), call.relative)>>]
    /\ UNCHANGED <<content, fault, pc, todo, modified, reported, runs, rewritten, applied, last>>

SpecChoose ==
    InitChoose /\ [][CallChooseInfo]_vars

(***************************************************************************)
(* The synthesizer alone: build_header applied once to a file with a       *)
(* sampled base name.  The result holds the header and the locals of       *)
(* build_header that decide it.                                            *)
(***************************************************************************)

InitHeader ==
    /\ NoTree
    /\ \E base \in BASE_NAMES :
           call = [fn |-> "build_header", relative |-> DIR_PKG \o base \o GO_SUFFIX,
                   result |-> <<>>]

CallBuildHeader ==
    /\ call.fn = "build_header" /\ call.result = <<>>
    /\ call' = [call EXCEPT !.result =
                   << [base     |-> path_stem(call.relative),
                       is_bench |-> is_bench(path_stem(call.relative)),
                       is_test  |-> is_test(path_stem(call.relative)),
                       feature  |-> header_feature(path_stem(call.relative)),
                       header   |-> build_header(call.relative, choose_info(call.relative))] >>]
    /\ UNCHANGED <<content, fault, pc, todo, modified, reported, runs, rewritten, applied, last>>

SpecHeader ==
    InitHeader /\ [][CallBuildHeader]_vars

(***************************************************************************)
(* The properties checked.                                                 *)
(***************************************************************************)

\* The latest loop iteration rewrote its file.
Rewrote ==
    last.outcome = "rewritten"

\* The lines of the rewritten file before and after the rewrite.
OldLines ==
    splitlines(last.before)

NewLines ==
    splitlines(content[last.path])

\* The header block of the rewritten file.
LastHeader ==
    build_header(last.path, choose_info(last.path))

\* The header block stands in `lines` from line i on.
HeaderAt(lines, i, header) ==
    SubSeq(lines, i, i + Len(header) - 1) = header

\* No header block stands in `lines` before line i.
NoHeaderBefore(lines, i, header) ==
    \A j \in 1..(i - 1) : ~HeaderAt(lines, j, header)

AllWhitespace(line) ==
    \A i \in 1..Len(line) : line[i] \in WHITESPACE

IsDirective(line) ==
    StartsWith(line, GO_BUILD) \/ StartsWith(line, PLUS_BUILD)

\* The marker occurs as a substring of one of the first five lines of text.
MarkerInFirstLines(text) ==
    LET lines == splitlines(text)
    IN  \E i \in 1..Len(lines) : i <= 5 /\ Contains(lines[i], SPDX_MARKER)

\* C1: a second application of insert_header to a file leaves the file as the
\* first application left it.
C1_SecondRunChangesNothing ==
    [][\A p \in DOMAIN content :
          (applied[p] >= 1 /\ applied'[p] = applied[p] + 1) => content'[p] = content[p]]_vars

\* C2: a file with the SPDX marker as a substring of one of its first five
\* lines is never changed again.
C2_AnnotatedNeverTouched ==
    [][\A p \in DOMAIN content :
          MarkerInFirstLines(content[p]) => content'[p] = content[p]]_vars

\* A path is the key or lies under the directory the key names.
IsUnder(relative, key) ==
    \/ relative = key
    \/ /\ Len(relative) > Len(key)
       /\ SubSeq(relative, 1, Len(key)) = key
       /\ relative[Len(key) + 1] = "/"

MatchingEntries(relative) ==
    {i \in 1..Len(DIR_INFO) : IsUnder(relative, DIR_INFO[i].key)}

EntryInfo(i) ==
    [component |-> DIR_INFO[i].component, usage_template |-> DIR_INFO[i].usage_template,
     notes |-> DIR_INFO[i].notes]

ChooseReturned ==
    call.fn = "choose_info" /\ call.result # <<>>

\* C3: choose_info returns the entry of the longest key the path equals or lies
\* under, and DEFAULT_INFO exactly when there is no such key, whatever the order
\* in which the table is iterated.
C3_LongestPrefix ==
    ChooseReturned =>
        LET M == MatchingEntries(call.relative)
        IN  IF M = {} THEN call.result[1] = DEFAULT_INFO
            ELSE /\ call.result[1] # DEFAULT_INFO
                 /\ \E i \in M :
                        /\ \A j \in M : Len(DIR_INFO[j].key) <= Len(DIR_INFO[i].key)
                        /\ call.result[1] = EntryInfo(i)

\* C3's case: a path under two keys, one the ancestor of the other, resolved
\* with the table iterated in another order than the source's.
C3_Witness ==
    /\ ChooseReturned
    /\ Cardinality(MatchingEntries(call.relative)) >= 2
    /\ call.reversed

\* The length of the leading preamble: the maximal prefix of lines that are
\* build directives or blank.
PreambleLen(lines) ==
    CHOOSE n \in 0..Len(lines) :
        /\ \A i \in 1..n : IsDirective(lines[i]) \/ AllWhitespace(lines[i])
        /\ n < Len(lines) => ~(IsDirective(lines[n + 1]) \/ AllWhitespace(lines[n + 1]))

\* C4: in a rewritten file every build directive of the leading preamble (the
\* maximal prefix of directive and blank lines) is still above the header
\* block, which stands immediately before the first line of actual content.
C4_PreambleStaysAbove ==
    Rewrote =>
        LET old    == OldLines
            new    == NewLines
            header == LastHeader
            n      == PreambleLen(old)
        IN  /\ SubSeq(new, 1, n) = SubSeq(old, 1, n)
            /\ HeaderAt(new, n + 1, header)
            /\ NoHeaderBefore(new, n + 1, header)

\* What the code keeps above the header block instead: the leading run of
\* "//go:build" lines, then at most one "// +build" line right after that run,
\* then the blank lines right after those, and nothing else.
CodePlacement ==
    Rewrote =>
        LET old    == OldLines
            new    == NewLines
            header == LastHeader
        IN  \E k \in 0..Len(old) :
                /\ SubSeq(new, 1, k) = SubSeq(old, 1, k)
                /\ HeaderAt(new, k + 1, header)
                /\ NoHeaderBefore(new, k + 1, header)
                /\ \E g \in 0..k, p \in {0, 1} :
                       /\ g + p <= k
                       /\ \A i \in 1..g : StartsWith(old[i], GO_BUILD)
                       /\ g < Len(old) => ~StartsWith(old[g + 1], GO_BUILD)
                       /\ p = 1 <=> (g < Len(old) /\ StartsWith(old[g + 1], PLUS_BUILD))
                       /\ \A i \in (g + p + 1)..k : AllWhitespace(old[i])
                       /\ k < Len(old) => ~AllWhitespace(old[k + 1])

\* C5: the lines of a rewritten file are its lines before the rewrite with the
\* seven header lines and one empty line spliced in at one index; every
\* original line is kept, unmodified and in order, and no other line is added.
C5_SpliceOnly ==
    Rewrote =>
        LET old    == OldLines
            new    == NewLines
            header == LastHeader
        IN  /\ Len(header) = 7
            /\ Len(new) = Len(old) + 8
            /\ \E i \in 0..Len(old) :
                   /\ SubSeq(new, 1, i) = SubSeq(old, 1, i)
                   /\ SubSeq(new, i + 1, i + 7) = header
                   /\ new[i + 8] = <<>>
                   /\ SubSeq(new, i + 9, Len(new)) = SubSeq(old, i + 1, Len(old))

\* C5's case: a rewrite that spliced the block between two lines of a file
\* with a "\r\n" line break.
C5_Witness ==
    /\ Rewrote
    /\ Contains(last.before, <<"\r", "\n">>)
    /\ LET old == OldLines
       IN  /\ Len(old) = 3
           /\ old[1] = LINE_GO_BUILD
           /\ old[2] # LINE_GO_BUILD
           /\ HeaderAt(NewLines, 2, LastHeader)

\* C6: when reading or writing one file fails, the run does not abort: it goes
\* on to the remaining files and to its summary.
C6_FailureIsolated ==
    last.outcome = "raised" => pc \in {"loop", "done"}

\* C7: the number in the summary is the number of files rewritten in the run.
C7_CountIsRewritten ==
    pc = "done" => reported = Cardinality(rewritten)

HeaderBuilt ==
    call.fn = "build_header" /\ call.result # <<>>

SEPARATORS ==
    {"_", "-"}

\* Some character of s is neither a separator nor whitespace.
HasWord(s) ==
    \E i \in 1..Len(s) : s[i] \notin SEPARATORS \cup WHITESPACE

\* The classification of a base name, benchmark before test.
KindOf(base) ==
    IF EndsWith(base, BENCH_SUFFIX) THEN "benchmark"
    ELSE IF EndsWith(base, TEST_SUFFIX) \/ EndsWith(base, TESTS_SUFFIX) THEN "test"
    ELSE "production"

\* The base name without its classification suffix.
Stripped(base) ==
    IF EndsWith(base, BENCH_SUFFIX) THEN DropLast(base, Len(BENCH_SUFFIX))
    ELSE IF EndsWith(base, TESTS_SUFFIX) THEN DropLast(base, Len(TESTS_SUFFIX))
    ELSE IF EndsWith(base, TEST_SUFFIX) THEN DropLast(base, Len(TEST_SUFFIX))
    ELSE base

\* s with its separators replaced by spaces, as one space-joined phrase.
Phrase(s) ==
    join(<<" ">>, split([i \in 1..Len(s) |-> IF s[i] \in SEPARATORS THEN " " ELSE s[i]]))

\* C8: build_header classifies a base name as benchmark, test or production by
\* its suffix, benchmark first, and the feature label of a benchmark or test
\* file is the base name without that suffix, separators replaced by single
\* spaces.  (Names left with no word after stripping are C9's case.)
C8_ClassifyAndStrip ==
    HeaderBuilt =>
        LET r    == call.result[1]
            kind == IF r.is_bench THEN "benchmark" ELSE IF r.is_test THEN "test"
                    ELSE "production"
        IN  /\ kind = KindOf(r.base)
            /\ (kind # "production" /\ HasWord(Stripped(r.base)))
                   => r.feature = Phrase(Stripped(r.base))

\* C9: a base name with nothing but separators left after its classification
\* suffix is stripped gets the feature label "main", so the label is never
\* empty and never made of separators only.
C9_MainFallback ==
    HeaderBuilt =>
        LET r == call.result[1]
        IN  /\ ~HasWord(Stripped(r.base)) => r.feature = MAIN_LABEL
            /\ HasWord(r.feature)

\* C10: the content insert_header writes ends with exactly one newline.
C10_OneTrailingNewline ==
    Rewrote =>
        /\ EndsWith(content[last.path], <<"\n">>)
        /\ ~EndsWith(content[last.path], <<"\n", "\n">>)

====
